---- MODULE Spec2Model ----
(***************************************************************************)
(* Model of the eBay sales reconciliation scripts:                         *)
(*   ebay_sale_project.py            per-order rows, estimated ad fee      *)
(*   tradingAPI_FinanceAPI_Merge.py  per-unit rows, ad fees matched by     *)
(*                                   order identifier                      *)
(*   refund_logic.py                 offset-style fee pagination           *)
(* and of the reporting interval each of them derives from a year and a    *)
(* month.                                                                  *)
(*                                                                         *)
(* Money is held in integer cents once it has been quantized to 0.01.      *)
(* Texts (the strings of the API responses) are tuples of one-character    *)
(* strings, so that Decimal(text) and int(text) are real parses.           *)
(***************************************************************************)
EXTENDS Integers, Sequences, FiniteSets, TLC

VARIABLES
    \* extract_decimal applied to one nested record
    data, key_path, extracted, xpc,
    \* one transaction through the loop body of each process_sales_data
    transaction, logged, sale_items, unit_items, apc,
    \* get_finance_transactions: the pagination loop and what the fee feed served
    style, fpc, url, params, all_transactions, fee_requests, served,
    \* one run of a script: the order feed, the data frames, the export file
    script, pc, feed, order_requests, orders, sales_data_df, ad_fees_df, merged_df, csv,
    \* the reporting period: the year and month entered, the interval derived
    year, month, start_date, end_date, dpc

extractVars == <<data, key_path, extracted, xpc>>
allocVars == <<transaction, logged, sale_items, unit_items, apc>>
pageVars == <<style, fpc, url, params, all_transactions, fee_requests, served>>
runVars == <<script, pc, feed, order_requests, orders, sales_data_df, ad_fees_df, merged_df, csv>>
periodVars == <<year, month, start_date, end_date, dpc>>
vars == <<extractVars, allocVars, pageVars, runVars, periodVars>>

(***************************************************************************)
(* decimal.Decimal                                                         *)
(***************************************************************************)
Abs(n) == IF n < 0 THEN -n ELSE n

Sign(n) == IF n < 0 THEN -1 ELSE 1

RECURSIVE Pow10(_)
Pow10(k) == IF k = 0 THEN 1 ELSE 10 * Pow10(k - 1)

\* A plausible wrong rounding: the digits beyond the cent are cut off.
RoundDown(num, den) == Sign(num) * (Abs(num) \div den)

\* The integer nearest to num/den (den > 0), a tie going away from zero:
\* what quantize(..., rounding=ROUND_HALF_UP) does to the exact quotient.
RoundHalfUp(num, den) == Sign(num) * ((2 * Abs(num) + den) \div (2 * den))

DigitChars == <<"0", "1", "2", "3", "4", "5", "6", "7", "8", "9">>

IsDigit(c) == \E i \in 1..10 : DigitChars[i] = c

DigitVal(c) == (CHOOSE i \in 1..10 : DigitChars[i] = c) - 1

\* The text without its sign.
Unsigned(t) == IF t # <<>> /\ Head(t) \in {"-", "+"} THEN Tail(t) ELSE t

PointPositions(u) == {i \in 1..Len(u) : u[i] = "."}

\* The numeric strings Decimal() accepts, in plain notation: an optional
\* sign, digits with at most one decimal point, at least one digit.
IsDecimalText(t) ==
    LET u == Unsigned(t)
        pts == PointPositions(u)
    IN  /\ Cardinality(pts) <= 1
        /\ Len(u) > Cardinality(pts)
        /\ \A i \in (1..Len(u)) \ pts : IsDigit(u[i])

\* The digits of u read as one integer, the point skipped.
RECURSIVE DigitsValue(_, _)
DigitsValue(u, acc) ==
    IF u = <<>> THEN acc
    ELSE IF Head(u) = "." THEN DigitsValue(Tail(u), acc)
    ELSE DigitsValue(Tail(u), 10 * acc + DigitVal(Head(u)))

\* Decimal(t) for a numeric string: the value is coef / 10^scale.
DecimalOf(t) ==
    LET u == Unsigned(t)
        pts == PointPositions(u)
        scale == IF pts = {} THEN 0 ELSE Len(u) - (CHOOSE i \in pts : TRUE)
        mag == DigitsValue(u, 0)
    IN  [coef |-> IF t # <<>> /\ Head(t) = "-" THEN -mag ELSE mag, scale |-> scale]

\* Decimal(t).quantize(Decimal('0.01'), rounding=ROUND_HALF_UP), in cents.
Quantize(d) == RoundHalfUp(d.coef * 100, Pow10(d.scale))

\* int(t) for a string of digits.
IntOf(t) == DigitsValue(t, 0)

(***************************************************************************)
(* Nested records of the API responses: a value is a dict, a string or     *)
(* None.  Only a dict has .get.                                            *)
(***************************************************************************)
NoneNode == [kind |-> "none", text |-> <<>>, items |-> <<>>]

Str(t) == [kind |-> "str", text |-> t, items |-> <<>>]

Dict(f) == [kind |-> "dict", text |-> <<>>, items |-> f]

EmptyDict == Dict(<<>>)

Has(node, key) == node.kind = "dict" /\ key \in DOMAIN node.items

\* dict.get(key, default)
Get(node, key, default) == IF key \in DOMAIN node.items THEN node.items[key] ELSE default

Returned(c) == [raised |-> FALSE, error |-> "", cents |-> c]

Raised(e) == [raised |-> TRUE, error |-> e, cents |-> 0]

\* The loop "for key in key_path: value = value.get(key, {})".  A value
\* that is not a dict has no .get: the call raises AttributeError, told here
\* by the node of kind "raise".
RECURSIVE Traverse(_, _)
Traverse(value, path) ==
    IF path = <<>> THEN value
    ELSE IF value.kind # "dict" THEN [kind |-> "raise", text |-> <<>>, items |-> <<>>]
    ELSE Traverse(Get(value, Head(path), EmptyDict), Tail(path))

\* Decimal(value.get('value', default)).quantize(Decimal('0.01'), ROUND_HALF_UP)
QuantizedValue(value, default) ==
    IF value.kind # "dict" THEN Raised("AttributeError")
    ELSE LET v == Get(value, "value", Str(default))
         IN  IF v.kind # "str" THEN Raised("TypeError")
             ELSE IF ~IsDecimalText(v.text) THEN Raised("InvalidOperation")
             ELSE Returned(Quantize(DecimalOf(v.text)))

DefaultText == <<"0">>

\* extract_decimal(data, key_path, default='0')
extract_decimal(record, path) ==
    LET value == Traverse(record, path)
    IN  IF value.kind = "raise" THEN Raised("AttributeError")
        ELSE QuantizedValue(value, DefaultText)

(***************************************************************************)
(* extract_decimal on its own: the inputs                                  *)
(***************************************************************************)
AmountTexts ==
    { <<"0">>, <<"2", ".", "5">>, <<"1", ".", "0", "0", "5">>,
      <<"1", ".", "0", "0", "4">>, <<"-", "0", ".", "0", "0", "5">>,
      <<"a", "b", "c">>, <<>> }

Scalars == {NoneNode} \cup {Str(t) : t \in {<<"2", ".", "5">>, <<"a", "b", "c">>}}

\* {'value': ...} with the value a string, None, or missing.
AmountDicts == {EmptyDict} \cup {Dict([k \in {"value"} |-> v]) : v \in {Str(t) : t \in AmountTexts} \cup {NoneNode}}

InnerNodes == Scalars \cup AmountDicts

TaxesNodes == InnerNodes \cup {Dict([k \in {"TotalTaxAmount"} |-> n]) : n \in InnerNodes}

ExtractRecords ==
    {EmptyDict}
    \cup {Dict([k \in {"Taxes"} |-> n]) : n \in TaxesNodes}
    \cup {Dict([k \in {"FinalValueFee"} |-> n]) : n \in InnerNodes}
    \cup {Dict([k \in {"Taxes", "FinalValueFee"} |->
                IF k = "Taxes" THEN Dict([j \in {"TotalTaxAmount"} |-> n]) ELSE m]) :
            n \in AmountDicts, m \in Scalars \cup {EmptyDict}}

KeyPaths == {<<"FinalValueFee">>, <<"Taxes", "TotalTaxAmount">>, <<"Taxes">>, <<>>}

ExtractInit ==
    /\ data \in ExtractRecords
    /\ key_path \in KeyPaths
    /\ extracted = Returned(0)
    /\ xpc = "call"

ExtractIdle ==
    /\ data = EmptyDict
    /\ key_path = <<>>
    /\ extracted = Returned(0)
    /\ xpc = "idle"

\* One call of extract_decimal(data, key_path).
ExtractCall ==
    /\ xpc = "call"
    /\ extracted' = extract_decimal(data, key_path)
    /\ xpc' = "done"
    /\ UNCHANGED <<data, key_path, allocVars, periodVars, pageVars, runVars>>

\* The caller goes on to the next field of the record.
ExtractNextField ==
    /\ xpc = "done"
    /\ ~extracted.raised
    /\ key_path' \in KeyPaths \ {key_path}
    /\ xpc' = "call"
    /\ UNCHANGED <<data, extracted, allocVars, periodVars, pageVars, runVars>>

(***************************************************************************)
(* The transactions of an order (the Trading API's GetOrders schema)       *)
(***************************************************************************)
\* The digits of a natural number.
RECURSIVE NatText(_)
NatText(n) == IF n < 10 THEN <<DigitChars[n + 1]>> ELSE Append(NatText(n \div 10), DigitChars[(n % 10) + 1])

\* An amount of c cents as the API writes it, such as 3.01.
DecText(c) == NatText(c \div 100) \o <<".", DigitChars[((c % 100) \div 10) + 1], DigitChars[(c % 10) + 1]>>

AmountField(c) == Dict([k \in {"value"} |-> Str(DecText(c))])

Present(n) == [present |-> TRUE, n |-> n]

Absent == [present |-> FALSE, n |-> 0]

\* A Transaction element; QuantityPurchased and ActualHandlingCost may be left out.
Transaction(title, quantity, price, shipping, tax, fvf, handling) ==
    LET keys == {"Item", "TransactionPrice", "ActualShippingCost", "Taxes", "FinalValueFee"}
                \cup (IF quantity.present THEN {"QuantityPurchased"} ELSE {})
                \cup (IF handling.present THEN {"ActualHandlingCost"} ELSE {})
    IN  Dict([k \in keys |->
            CASE k = "Item" -> Dict([j \in {"Title"} |-> Str(title)])
              [] k = "QuantityPurchased" -> Str(NatText(quantity.n))
              [] k = "TransactionPrice" -> AmountField(price)
              [] k = "ActualShippingCost" -> AmountField(shipping)
              [] k = "Taxes" -> Dict([j \in {"TotalTaxAmount"} |-> AmountField(tax)])
              [] k = "FinalValueFee" -> AmountField(fvf)
              [] OTHER -> AmountField(handling.n)])

\* transaction['Item']['Title']
TitleOf(txn) == txn.items["Item"].items["Title"].text

(***************************************************************************)
(* ebay_sale_project.process_sales_data: the body of the transaction loop  *)
(***************************************************************************)
InsertionFeeLow == 30

InsertionFeeHigh == 40

InsertionFeeLimit == 1000

\* A plausible wrong tier test: the boundary price falls in the upper tier.
InsertionFeeStrict(price) == IF price < InsertionFeeLimit THEN InsertionFeeLow ELSE InsertionFeeHigh

\* Decimal(0.30 if price <= Decimal('10.00') else 0.40).quantize(0.01): the
\* floats 0.30 and 0.40 are not exact, and quantize brings them to 0.30, 0.40.
InsertionFee(price) == IF price <= InsertionFeeLimit THEN InsertionFeeLow ELSE InsertionFeeHigh

\* A plausible wrong ad fee: the half cent is cut off.
AdFeeTruncated(sale_price) == RoundDown(sale_price * 2, 100)

\* (sale_price * Decimal('0.02')).quantize(Decimal('0.01'), ROUND_HALF_UP)
AdFee(sale_price) == RoundHalfUp(sale_price * 2, 100)

\* The five amounts both scripts read from a transaction.
Amounts(txn) ==
    [item_price |-> extract_decimal(txn, <<"TransactionPrice">>),
     shipping_cost |-> extract_decimal(txn, <<"ActualShippingCost">>),
     sales_tax |-> extract_decimal(txn, <<"Taxes", "TotalTaxAmount">>),
     final_value_fee |-> extract_decimal(txn, <<"FinalValueFee">>),
     handling_cost |-> extract_decimal(txn, <<"ActualHandlingCost">>)]

\* The values the loop body computes and logs for one transaction.
SaleComputation(txn) ==
    LET a == Amounts(txn)
        item_price == a.item_price.cents
        shipping_cost == a.shipping_cost.cents
        sales_tax == a.sales_tax.cents
        final_value_fee == a.final_value_fee.cents
        handling_cost == a.handling_cost.cents
        sale_price == item_price + shipping_cost + sales_tax + handling_cost
        ad_fee == AdFee(sale_price)
        insertion_fee == InsertionFee(sale_price)
        net_sale_without_ad_fee == sale_price - sales_tax - final_value_fee - insertion_fee - shipping_cost
        net_sale_with_ad_fee == net_sale_without_ad_fee - ad_fee
    IN  [item_price |-> item_price, shipping_cost |-> shipping_cost, sales_tax |-> sales_tax,
         final_value_fee |-> final_value_fee, handling_cost |-> handling_cost,
         sale_price |-> sale_price, ad_fee |-> ad_fee, insertion_fee |-> insertion_fee,
         net_sale_without_ad_fee |-> net_sale_without_ad_fee,
         net_sale_with_ad_fee |-> net_sale_with_ad_fee]

\* The row appended for the transaction.  float() of an amount of two
\* decimals names that amount: the row keeps it in cents.
SaleItem(txn) ==
    LET c == SaleComputation(txn)
    IN  [Title |-> TitleOf(txn), SalePrice |-> c.sale_price,
         NetSaleWithoutAdFee |-> c.net_sale_without_ad_fee,
         NetSaleWithAdFee |-> c.net_sale_with_ad_fee, COGS |-> ""]

(***************************************************************************)
(* tradingAPI_FinanceAPI_Merge.process_sales_data: the body of the loop    *)
(***************************************************************************)
\* A plausible wrong default: a transaction without QuantityPurchased has no unit.
QuantityOfDefaultZero(txn) ==
    IF Has(txn, "QuantityPurchased") THEN IntOf(txn.items["QuantityPurchased"].text) ELSE 0

\* int(transaction.get('QuantityPurchased', 1))
QuantityOf(txn) ==
    IF Has(txn, "QuantityPurchased") THEN IntOf(txn.items["QuantityPurchased"].text) ELSE 1

\* A plausible wrong allocation: the quotient is cut off at the cent.
PerUnitTruncated(total, quantity) == IF quantity # 0 THEN RoundDown(total, quantity) ELSE 0

\* (total / quantity).quantize(Decimal('0.01'), ROUND_HALF_UP) if quantity else Decimal('0.00')
PerUnit(total, quantity) == IF quantity # 0 THEN RoundHalfUp(total, quantity) ELSE 0

\* The row of one unit of the transaction.
UnitItem(order_id, txn) ==
    LET a == Amounts(txn)
        quantity == QuantityOf(txn)
        item_price == a.item_price.cents
        per_unit_shipping_cost == PerUnit(a.shipping_cost.cents, quantity)
        per_unit_sales_tax == PerUnit(a.sales_tax.cents, quantity)
        per_unit_final_value_fee == PerUnit(a.final_value_fee.cents, quantity)
        per_unit_handling_cost == PerUnit(a.handling_cost.cents, quantity)
        per_unit_sale_price == item_price + per_unit_shipping_cost + per_unit_sales_tax + per_unit_handling_cost
        insertion_fee == InsertionFee(per_unit_sale_price)
        net_sale_without_ad_fee == per_unit_sale_price - per_unit_sales_tax - per_unit_final_value_fee
                                   - insertion_fee - per_unit_shipping_cost
    IN  [OrderID |-> order_id, Title |-> TitleOf(txn), SalePrice |-> per_unit_sale_price,
         NetSaleWithoutAdFee |-> net_sale_without_ad_fee,
         FinalValueFee |-> per_unit_final_value_fee, InsertionFee |-> insertion_fee,
         ShippingCost |-> per_unit_shipping_cost, HandlingCost |-> per_unit_handling_cost,
         SalesTax |-> per_unit_sales_tax, COGS |-> ""]

\* "for _ in range(quantity): items.append({...})": one row for each unit.
UnitItems(order_id, txn) == [i \in 1..QuantityOf(txn) |-> UnitItem(order_id, txn)]

(***************************************************************************)
(* One transaction through both loop bodies: the inputs                    *)
(***************************************************************************)
MaxQuantity == 4

MaxSmallTotal == 6

Quantities == {Absent} \cup {Present(n) : n \in 0..MaxQuantity}

ItemPrices == {25, 995, 1000, 2000}

ShippingTotals == (0..MaxSmallTotal) \cup {300, 301, 500}

TaxTotals == {0, 2, 200}

FeeTotals == {0, 5, 150}

HandlingTotals == {Absent, Present(0), Present(5)}

AllocTransactions ==
    {Transaction(<<"t">>, q, p, s, t, f, h) :
        q \in Quantities, p \in ItemPrices, s \in ShippingTotals,
        t \in TaxTotals, f \in FeeTotals, h \in HandlingTotals}

\* Nothing logged yet.
NoLog ==
    [item_price |-> 0, shipping_cost |-> 0, sales_tax |-> 0, final_value_fee |-> 0, handling_cost |-> 0,
     sale_price |-> 0, ad_fee |-> 0, insertion_fee |-> 0, net_sale_without_ad_fee |-> 0,
     net_sale_with_ad_fee |-> 0]

AllocInit ==
    /\ transaction \in AllocTransactions
    /\ logged = NoLog
    /\ sale_items = <<>>
    /\ unit_items = <<>>
    /\ apc = [sale |-> "loop", merge |-> "loop"]

AllocIdle ==
    /\ transaction = EmptyDict
    /\ logged = NoLog
    /\ sale_items = <<>>
    /\ unit_items = <<>>
    /\ apc = [sale |-> "idle", merge |-> "idle"]

\* ebay_sale_project: the loop body on the transaction.
ProcessSaleTransaction ==
    /\ apc.sale = "loop"
    /\ logged' = SaleComputation(transaction)
    /\ sale_items' = Append(sale_items, SaleItem(transaction))
    /\ apc' = [apc EXCEPT !.sale = "done"]
    /\ UNCHANGED <<transaction, unit_items, extractVars, periodVars, pageVars, runVars>>

\* tradingAPI_FinanceAPI_Merge: the loop body on the transaction.
ProcessMergeTransaction ==
    /\ apc.merge = "loop"
    /\ unit_items' = unit_items \o UnitItems(<<"A">>, transaction)
    /\ apc' = [apc EXCEPT !.merge = "done"]
    /\ UNCHANGED <<transaction, logged, sale_items, extractVars, periodVars, pageVars, runVars>>

(***************************************************************************)
(* The fee feed (Finance API getTransactions) and its records              *)
(***************************************************************************)
OrderIdA == <<"A">>

OrderIdB == <<"B">>

Reference(type, id) == [referenceType |-> type, referenceId |-> id]

FeeTransaction(amount, refs) == [amount |-> DecText(amount), references |-> refs]

\* Two ad fees of order A (one names it in its second reference), and a
\* fee without a reference of type ORDER_ID.
FeePool ==
    { FeeTransaction(100, <<Reference("ORDER_ID", OrderIdA)>>),
      FeeTransaction(50, <<Reference("ITEM_ID", OrderIdB), Reference("ORDER_ID", OrderIdA)>>),
      FeeTransaction(100, <<Reference("ITEM_ID", OrderIdA)>>) }

MaxFeePages == 3

MaxPageSize == 1

\* The transactions of one page: up to the page size.
FeePages == UNION {[1..k -> FeePool] : k \in 0..MaxPageSize}

BaseUrl == <<"/", "t">>

NextUrl == <<"/", "t", "?", "n", "e", "x", "t">>

Link(rel, href) == [rel |-> rel, href |-> href]

\* The links of a response: none, a next link after the self link, a next
\* link that carries no href.
LinkLists == { <<>>, <<Link("self", BaseUrl), Link("next", NextUrl)>>, <<Link("next", <<>>)>> }

\* The href of an offset-style response: missing, the page's own, one holding "next".
Hrefs == { <<>>, BaseUrl, NextUrl }

Response(status, txs, links, href) ==
    [status_code |-> status, transactions |-> txs, links |-> links, href |-> href]

PageLimit == 1000

\* A plausible wrong continuation test: a full page means another page.
NextPageWhenFull(response) ==
    IF Len(response.transactions) = MaxPageSize THEN NextUrl ELSE <<>>

\* tradingAPI_FinanceAPI_Merge: the href of the first link whose rel is
\* 'next', None (the empty text) when there is none.
NextPage(response) ==
    LET nexts == {i \in 1..Len(response.links) : response.links[i].rel = "next"}
    IN  IF nexts = {} THEN <<>>
        ELSE response.links[CHOOSE i \in nexts : \A j \in nexts : i <= j].href

\* sub in text
Contains(text, sub) ==
    \E i \in 1..(Len(text) - Len(sub) + 1) : SubSeq(text, i, i + Len(sub) - 1) = sub

\* refund_logic: 'next' in data.get('href', '')
HasNextOffset(response) == Contains(response.href, <<"n", "e", "x", "t">>)

PagingInit ==
    /\ style \in {"link", "offset"}
    /\ fpc = "request"
    /\ url = BaseUrl
    /\ params = [filters |-> TRUE, offset |-> 0]
    /\ all_transactions = <<>>
    /\ fee_requests = 0
    /\ served = <<>>

PagingIdle ==
    /\ style = "link"
    /\ fpc = "idle"
    /\ url = BaseUrl
    /\ params = [filters |-> TRUE, offset |-> 0]
    /\ all_transactions = <<>>
    /\ fee_requests = 0
    /\ served = <<>>

Paging == fpc = "request" /\ pc \in {"paging", "fetch_fees"}

\* tradingAPI_FinanceAPI_Merge.get_finance_transactions: one turn of the
\* loop on a 200 response.  The feed has at most MaxFeePages pages.
LinkPage200 ==
    /\ Paging
    /\ style = "link"
    /\ \E txs \in FeePages, links \in LinkLists :
         LET response == Response(200, txs, links, <<>>)
             next_page == NextPage(response)
         IN  /\ (fee_requests + 1 = MaxFeePages) => next_page = <<>>
             /\ served' = Append(served, response)
             /\ fee_requests' = fee_requests + 1
             /\ all_transactions' = all_transactions \o txs
             /\ IF next_page # <<>>
                THEN /\ url' = next_page
                     /\ params' = [filters |-> FALSE, offset |-> 0]
                     /\ fpc' = "request"
                ELSE /\ fpc' = "returned"
                     /\ UNCHANGED <<url, params>>
    /\ UNCHANGED <<style, extractVars, allocVars, periodVars, runVars>>

\* ... and on any other response: the error is logged and the loop left.
LinkPageError ==
    /\ Paging
    /\ style = "link"
    /\ served' = Append(served, Response(500, <<>>, <<>>, <<>>))
    /\ fee_requests' = fee_requests + 1
    /\ fpc' = "returned"
    /\ UNCHANGED <<style, url, params, all_transactions, extractVars, allocVars, periodVars, runVars>>

\* refund_logic.get_finance_transactions: one turn of the loop on a 200 response.
OffsetPage200 ==
    /\ Paging
    /\ style = "offset"
    /\ \E txs \in FeePages, href \in Hrefs :
         LET response == Response(200, txs, <<>>, href)
         IN  /\ (fee_requests + 1 = MaxFeePages) => ~HasNextOffset(response)
             /\ served' = Append(served, response)
             /\ fee_requests' = fee_requests + 1
             /\ all_transactions' = all_transactions \o txs
             /\ IF HasNextOffset(response)
                THEN /\ params' = [params EXCEPT !.offset = @ + PageLimit]
                     /\ fpc' = "request"
                ELSE /\ fpc' = "returned"
                     /\ UNCHANGED params
    /\ UNCHANGED <<style, url, extractVars, allocVars, periodVars, runVars>>

OffsetPageError ==
    /\ Paging
    /\ style = "offset"
    /\ served' = Append(served, Response(500, <<>>, <<>>, <<>>))
    /\ fee_requests' = fee_requests + 1
    /\ fpc' = "returned"
    /\ UNCHANGED <<style, url, params, all_transactions, extractVars, allocVars, periodVars, runVars>>

(***************************************************************************)
(* pandas: a data frame is its columns and its rows                        *)
(***************************************************************************)
\* pd.DataFrame(rows): a frame made from no rows has no columns.
DataFrame(rows, columns) == [columns |-> IF rows = <<>> THEN {} ELSE columns, rows |-> rows]

\* pd.DataFrame(columns=[...])
EmptyFrame(columns) == [columns |-> columns, rows |-> <<>>]

RECURSIVE Flatten(_)
Flatten(seqs) == IF seqs = <<>> THEN <<>> ELSE Head(seqs) \o Flatten(Tail(seqs))

RECURSIVE Sum(_)
Sum(ns) == IF ns = <<>> THEN 0 ELSE Head(ns) + Sum(Tail(ns))

(***************************************************************************)
(* A run of ebay_sale_project ("sale") or tradingAPI_FinanceAPI_Merge      *)
(* ("merge")                                                               *)
(***************************************************************************)
MaxOrderPages == 2

RunQuantities == {Absent, Present(0), Present(2)}

Order(id, txn) == [OrderID |-> id, Transactions |-> <<txn>>]

RunOrders ==
    {Order(id, Transaction(id, q, 2000, 500, 200, 150, Absent)) : id \in {OrderIdA, OrderIdB}, q \in RunQuantities}

\* A page of GetOrders holds no order or one.
OrderPages == {<<>>} \cup {<<o>> : o \in RunOrders}

\* The order feed of the period: its pages.  A period without orders is one
\* empty page; a feed of several pages has an order on each, and an order
\* identifier is in it once.
Feeds ==
    {f \in UNION {[1..k -> OrderPages] : k \in 1..MaxOrderPages} :
        /\ Len(f) > 1 => \A i \in 1..Len(f) : f[i] # <<>>
        /\ \A i, j \in 1..Len(f) :
             (i # j /\ f[i] # <<>> /\ f[j] # <<>>) => f[i][1].OrderID # f[j][1].OrderID}

NoOrders == [none |-> TRUE, Order |-> <<>>, HasMoreOrders |-> FALSE]

NoFrame == EmptyFrame({})

NoCsv == [written |-> FALSE, name |-> "", rows |-> <<>>]

RunInit ==
    /\ script \in {"sale", "merge"}
    /\ pc = "fetch_orders"
    /\ feed \in Feeds
    /\ order_requests = 0
    /\ orders = NoOrders
    /\ sales_data_df = NoFrame
    /\ ad_fees_df = NoFrame
    /\ merged_df = NoFrame
    /\ csv = NoCsv

RunIdle(at) ==
    /\ script = "none"
    /\ pc = at
    /\ feed = <<>>
    /\ order_requests = 0
    /\ orders = NoOrders
    /\ sales_data_df = NoFrame
    /\ ad_fees_df = NoFrame
    /\ merged_df = NoFrame
    /\ csv = NoCsv

\* fetch_sold_items: the one GetOrders call answers with the first page of
\* the feed; main goes on to process_sales_data.
FetchSoldItems ==
    /\ pc = "fetch_orders"
    /\ order_requests' = order_requests + 1
    /\ orders' = [none |-> FALSE, Order |-> feed[1], HasMoreOrders |-> Len(feed) > 1]
    /\ pc' = "process"
    /\ UNCHANGED <<script, feed, sales_data_df, ad_fees_df, merged_df, csv, extractVars, allocVars, periodVars, pageVars>>

\* fetch_sold_items: the call raises, None is returned, and main reports
\* the failure and ends.
FetchSoldItemsFails ==
    /\ pc = "fetch_orders"
    /\ order_requests' = order_requests + 1
    /\ orders' = NoOrders
    /\ pc' = "failed"
    /\ UNCHANGED <<script, feed, sales_data_df, ad_fees_df, merged_df, csv, extractVars, allocVars, periodVars, pageVars>>

SaleColumns == {"Title", "SalePrice", "NetSaleWithoutAdFee", "NetSaleWithAdFee", "COGS"}

UnitColumns ==
    {"OrderID", "Title", "SalePrice", "NetSaleWithoutAdFee", "FinalValueFee", "InsertionFee",
     "ShippingCost", "HandlingCost", "SalesTax", "COGS"}

\* ebay_sale_project.process_sales_data: a row for each transaction.
SaleData(order_array) ==
    Flatten([i \in 1..Len(order_array) |->
        [j \in 1..Len(order_array[i].Transactions) |-> SaleItem(order_array[i].Transactions[j])]])

\* tradingAPI_FinanceAPI_Merge.process_sales_data: a row for each unit.
UnitData(order_array) ==
    Flatten([i \in 1..Len(order_array) |->
        Flatten([j \in 1..Len(order_array[i].Transactions) |->
            UnitItems(order_array[i].OrderID, order_array[i].Transactions[j])])])

ProcessSalesDataSale ==
    /\ pc = "process"
    /\ script = "sale"
    /\ sales_data_df' = DataFrame(SaleData(orders.Order), SaleColumns)
    /\ pc' = "export"
    /\ UNCHANGED <<script, feed, order_requests, orders, ad_fees_df, merged_df, csv, extractVars, allocVars, periodVars, pageVars>>

\* ... and main calls get_finance_transactions next.
ProcessSalesDataMerge ==
    /\ pc = "process"
    /\ script = "merge"
    /\ sales_data_df' = DataFrame(UnitData(orders.Order), UnitColumns)
    /\ pc' = "fetch_fees"
    /\ fpc' = "request"
    /\ UNCHANGED <<script, feed, order_requests, orders, ad_fees_df, merged_df, csv, extractVars, allocVars, periodVars,
                   style, url, params, all_transactions, fee_requests, served>>

\* ebay_sale_project main: sales_data_df.to_csv('sales_data.csv')
ExportSale ==
    /\ pc = "export"
    /\ script = "sale"
    /\ csv' = [written |-> TRUE, name |-> "sales_data.csv", rows |-> sales_data_df.rows]
    /\ pc' = "done"
    /\ UNCHANGED <<script, feed, order_requests, orders, sales_data_df, ad_fees_df, merged_df, extractVars, allocVars, periodVars, pageVars>>

\* The referenceId of the first reference of type ORDER_ID, None (the empty
\* text) when there is none.
OrderIdOf(tx) ==
    LET ids == {i \in 1..Len(tx.references) : tx.references[i].referenceType = "ORDER_ID"}
    IN  IF ids = {} THEN <<>>
        ELSE tx.references[CHOOSE i \in ids : \A j \in ids : i <= j].referenceId

\* get_ad_fees_dataframe: a row for each transaction that names an order.
AdFeeRows(transactions) ==
    LET named == SelectSeq(transactions, LAMBDA tx : OrderIdOf(tx) # <<>>)
    IN  [i \in 1..Len(named) |->
            [OrderID |-> OrderIdOf(named[i]), AdFee |-> Quantize(DecimalOf(named[i].amount))]]

get_ad_fees_dataframe(transactions) == DataFrame(AdFeeRows(transactions), {"OrderID", "AdFee"})

\* main: get_ad_fees_dataframe(ad_transactions) if ad_transactions else
\* pd.DataFrame(columns=['OrderID', 'AdFee'])
GetAdFees ==
    /\ pc = "fetch_fees"
    /\ fpc = "returned"
    /\ ad_fees_df' = IF all_transactions # <<>> THEN get_ad_fees_dataframe(all_transactions)
                     ELSE EmptyFrame({"OrderID", "AdFee"})
    /\ pc' = "merge"
    /\ UNCHANGED <<script, feed, order_requests, orders, sales_data_df, merged_df, csv, extractVars, allocVars, periodVars, pageVars>>

\* The rows of right that match a row of left on OrderID.
Matches(row, right) == SelectSeq(right.rows, LAMBDA r : r.OrderID = row.OrderID)

\* One row of pd.merge(..., how='left') with AdFee filled and NetSale
\* computed.  The two floats differ by an amount of whole cents, which the
\* quantize of their difference gives back.
MergedRow(row, ad_fee) ==
    [OrderID |-> row.OrderID, Title |-> row.Title, SalePrice |-> row.SalePrice,
     NetSaleWithoutAdFee |-> row.NetSaleWithoutAdFee, AdFee |-> ad_fee,
     NetSale |-> row.NetSaleWithoutAdFee - ad_fee, COGS |-> row.COGS]

\* pd.merge(left, right, on='OrderID', how='left'), fillna(0), NetSale: a
\* left row without a match is kept with AdFee 0, a left row with matches
\* is there once for each match.
MergedRows(left, right) ==
    Flatten([i \in 1..Len(left.rows) |->
        LET m == Matches(left.rows[i], right)
        IN  IF m = <<>> THEN <<MergedRow(left.rows[i], 0)>>
            ELSE [k \in 1..Len(m) |-> MergedRow(left.rows[i], m[k].AdFee)]])

\* pd.merge raises KeyError when a frame has no OrderID column.
MergeRaises(left, right) == "OrderID" \notin left.columns \/ "OrderID" \notin right.columns

Merge ==
    /\ pc = "merge"
    /\ IF MergeRaises(sales_data_df, ad_fees_df)
       THEN /\ pc' = "crashed"
            /\ UNCHANGED merged_df
       ELSE /\ merged_df' = [columns |-> UnitColumns \cup {"AdFee", "NetSale"},
                             rows |-> MergedRows(sales_data_df, ad_fees_df)]
            /\ pc' = "export"
    /\ UNCHANGED <<script, feed, order_requests, orders, sales_data_df, ad_fees_df, csv, extractVars, allocVars, periodVars, pageVars>>

\* merged_df[['Title', 'SalePrice', 'NetSale', 'COGS']].to_csv('proper_net_sale.csv')
ExportMerge ==
    /\ pc = "export"
    /\ script = "merge"
    /\ csv' = [written |-> TRUE, name |-> "proper_net_sale.csv",
               rows |-> [i \in 1..Len(merged_df.rows) |->
                   [Title |-> merged_df.rows[i].Title, SalePrice |-> merged_df.rows[i].SalePrice,
                    NetSale |-> merged_df.rows[i].NetSale, COGS |-> merged_df.rows[i].COGS]]]
    /\ pc' = "done"
    /\ UNCHANGED <<script, feed, order_requests, orders, sales_data_df, ad_fees_df, merged_df, extractVars, allocVars, periodVars, pageVars>>

(***************************************************************************)
(* The reporting period: datetime, pytz US/Pacific, strftime               *)
(***************************************************************************)
\* prompt_for_year_and_month accepts the years from 2020 to the current one.
MinYear == 2020

MaxYear == 2025

Years == MinYear..MaxYear

Months == 1..12

IsLeap(y) == (y % 4 = 0 /\ y % 100 # 0) \/ y % 400 = 0

DaysInMonth(y, m) ==
    IF m = 2 THEN (IF IsLeap(y) THEN 29 ELSE 28)
    ELSE IF m \in {4, 6, 9, 11} THEN 30 ELSE 31

RECURSIVE DaysBeforeMonth(_, _)
DaysBeforeMonth(y, m) == IF m = 1 THEN 0 ELSE DaysBeforeMonth(y, m - 1) + DaysInMonth(y, m - 1)

LeapDaysUpTo(y) == (y \div 4) - (y \div 100) + (y \div 400)

\* The days from 1970-01-01 to the first of January of y.
DaysBeforeYear(y) == 365 * (y - 1970) + LeapDaysUpTo(y - 1) - LeapDaysUpTo(1969)

\* datetime(year, month, day, hour, minute, second), without a timezone
DateTime(y, m, d, h, mi, s) == [year |-> y, month |-> m, day |-> d, hour |-> h, minute |-> mi, second |-> s]

\* The seconds from 1970-01-01T00:00:00 to dt on the same clock.
Seconds(dt) ==
    (DaysBeforeYear(dt.year) + DaysBeforeMonth(dt.year, dt.month) + dt.day - 1) * 86400
        + dt.hour * 3600 + dt.minute * 60 + dt.second

FromSeconds(n) ==
    LET days == n \div 86400
        rest == n % 86400
        y == CHOOSE c \in (MinYear - 1)..(MaxYear + 2) : DaysBeforeYear(c) <= days /\ days < DaysBeforeYear(c + 1)
        doy == days - DaysBeforeYear(y)
        m == CHOOSE c \in Months : DaysBeforeMonth(y, c) <= doy /\ doy < DaysBeforeMonth(y, c) + DaysInMonth(y, c)
    IN  DateTime(y, m, doy - DaysBeforeMonth(y, m) + 1, rest \div 3600, (rest % 3600) \div 60, rest % 60)

\* date.weekday(): Monday is 0 and Sunday is 6; 1970-01-01 was a Thursday.
Weekday(y, m, d) == (DaysBeforeYear(y) + DaysBeforeMonth(y, m) + d - 1 + 3) % 7

SecondSundayOfMarch(y) == CHOOSE d \in 8..14 : Weekday(y, 3, d) = 6

FirstSundayOfNovember(y) == CHOOSE d \in 1..7 : Weekday(y, 11, d) = 6

PST == -8 * 3600

PDT == -7 * 3600

\* US/Pacific since 2007: daylight time from 02:00 of the second Sunday of
\* March to 02:00 of the first Sunday of November on the local clock; the
\* hour that the clock repeats is taken as standard time (is_dst=False).
PacificOffset(naive) ==
    LET from == Seconds(DateTime(naive.year, 3, SecondSundayOfMarch(naive.year), 2, 0, 0))
        to == Seconds(DateTime(naive.year, 11, FirstSundayOfNovember(naive.year), 1, 0, 0))
    IN  IF from <= Seconds(naive) /\ Seconds(naive) < to THEN PDT ELSE PST

\* pacific.localize(naive)
localize(naive) == [naive |-> naive, utcoffset |-> PacificOffset(naive)]

\* aware - timedelta(seconds=n): the clock moves, the offset attached by
\* localize stays.
MinusSeconds(aware, n) == [naive |-> FromSeconds(Seconds(aware.naive) - n), utcoffset |-> aware.utcoffset]

\* aware.astimezone(pytz.utc)
astimezone_utc(aware) == FromSeconds(Seconds(aware.naive) - aware.utcoffset)

\* str.zfill(width)
RECURSIVE zfill(_, _)
zfill(t, width) == IF Len(t) >= width THEN t ELSE zfill(<<"0">> \o t, width)

Pad(n, width) == zfill(NatText(n), width)

\* '%Y-%m-%dT%H:%M:%S' and the text that follows the seconds
strftime(dt, tail) ==
    Pad(dt.year, 4) \o <<"-">> \o Pad(dt.month, 2) \o <<"-">> \o Pad(dt.day, 2) \o <<"T">>
        \o Pad(dt.hour, 2) \o <<":">> \o Pad(dt.minute, 2) \o <<":">> \o Pad(dt.second, 2) \o tail

\* '.000Z' of ebay_sale_project
ZeroMillisZ == <<".", "0", "0", "0", "Z">>

\* '.%fZ' of tradingAPI_FinanceAPI_Merge: the microsecond, which is 0
MicrosZ == <<".", "0", "0", "0", "0", "0", "0", "Z">>

\* get_date_range(year, month) with the tail of the script's format
get_date_range(y, m, tail) ==
    LET start == localize(DateTime(y, m, 1, 0, 0, 0))
        end == IF m = 12 THEN MinusSeconds(localize(DateTime(y + 1, 1, 1, 0, 0, 0)), 1)
               ELSE MinusSeconds(localize(DateTime(y, m + 1, 1, 0, 0, 0)), 1)
    IN  <<strftime(astimezone_utc(start), tail), strftime(astimezone_utc(end), tail)>>

\* refund_logic main: f"{year}-{month.zfill(2)}-01T00:00:00.000Z" and
\* f"{year}-{month.zfill(2)}-31T23:59:59.999Z" from the two texts entered
RefundStart(year_text, month_text) ==
    year_text \o <<"-">> \o zfill(month_text, 2)
        \o <<"-", "0", "1", "T", "0", "0", ":", "0", "0", ":", "0", "0", ".", "0", "0", "0", "Z">>

RefundEnd(year_text, month_text) ==
    year_text \o <<"-">> \o zfill(month_text, 2)
        \o <<"-", "3", "1", "T", "2", "3", ":", "5", "9", ":", "5", "9", ".", "9", "9", "9", "Z">>

PeriodInit ==
    /\ year \in Years
    /\ month \in Months
    /\ start_date = <<>>
    /\ end_date = <<>>
    /\ dpc = "input"

PeriodIdle ==
    /\ year = 0
    /\ month = 0
    /\ start_date = <<>>
    /\ end_date = <<>>
    /\ dpc = "idle"

\* ebay_sale_project main: start_date, end_date = get_date_range(year, month)
GetDateRangeSale ==
    /\ dpc = "input"
    /\ start_date' = get_date_range(year, month, ZeroMillisZ)[1]
    /\ end_date' = get_date_range(year, month, ZeroMillisZ)[2]
    /\ dpc' = "sale"
    /\ UNCHANGED <<year, month, extractVars, allocVars, pageVars, runVars>>

\* tradingAPI_FinanceAPI_Merge main: the same with its own format
GetDateRangeMerge ==
    /\ dpc = "input"
    /\ start_date' = get_date_range(year, month, MicrosZ)[1]
    /\ end_date' = get_date_range(year, month, MicrosZ)[2]
    /\ dpc' = "merge"
    /\ UNCHANGED <<year, month, extractVars, allocVars, pageVars, runVars>>

\* refund_logic main: the year and the month are used as they were typed
RefundDates ==
    /\ dpc = "input"
    /\ start_date' = RefundStart(NatText(year), NatText(month))
    /\ end_date' = RefundEnd(NatText(year), NatText(month))
    /\ dpc' = "refund"
    /\ UNCHANGED <<year, month, extractVars, allocVars, pageVars, runVars>>

(***************************************************************************)
(* Specifications                                                          *)
(***************************************************************************)
\* A run of one of the two sales scripts.
Init == RunInit /\ PagingIdle /\ ExtractIdle /\ AllocIdle /\ PeriodIdle

Next ==
    \/ FetchSoldItems
    \/ FetchSoldItemsFails
    \/ ProcessSalesDataSale
    \/ ProcessSalesDataMerge
    \/ ExportSale
    \/ LinkPage200
    \/ LinkPageError
    \/ GetAdFees
    \/ Merge
    \/ ExportMerge

Spec == Init /\ [][Next]_vars

\* The two pagination loops on their own.
InitPaging == PagingInit /\ RunIdle("paging") /\ ExtractIdle /\ AllocIdle /\ PeriodIdle

NextPaging == LinkPage200 \/ LinkPageError \/ OffsetPage200 \/ OffsetPageError

SpecPaging == InitPaging /\ [][NextPaging]_vars

\* extract_decimal on its own.
InitExtract == ExtractInit /\ AllocIdle /\ PagingIdle /\ RunIdle("idle") /\ PeriodIdle

NextExtract == ExtractCall \/ ExtractNextField

SpecExtract == InitExtract /\ [][NextExtract]_vars

\* One transaction through the loop bodies of the two process_sales_data.
InitAlloc == AllocInit /\ ExtractIdle /\ PagingIdle /\ RunIdle("idle") /\ PeriodIdle

NextAlloc == ProcessSaleTransaction \/ ProcessMergeTransaction

SpecAlloc == InitAlloc /\ [][NextAlloc]_vars

\* The three derivations of the reporting interval.
InitPeriod == PeriodInit /\ ExtractIdle /\ AllocIdle /\ PagingIdle /\ RunIdle("idle")

NextPeriod == GetDateRangeSale \/ GetDateRangeMerge \/ RefundDates

SpecPeriod == InitPeriod /\ [][NextPeriod]_vars

(***************************************************************************)
(* Properties                                                              *)
(***************************************************************************)
\* The amount of a transaction at a path, in cents.
Cents(txn, path) == extract_decimal(txn, path).cents

ItemPriceOf(txn) == Cents(txn, <<"TransactionPrice">>)

ShippingOf(txn) == Cents(txn, <<"ActualShippingCost">>)

TaxOf(txn) == Cents(txn, <<"Taxes", "TotalTaxAmount">>)

FinalValueFeeOf(txn) == Cents(txn, <<"FinalValueFee">>)

HandlingOf(txn) == Cents(txn, <<"ActualHandlingCost">>)

\* c is x/d (x >= 0, d > 0) rounded to the nearest integer, a half going up.
IsHalfUp(c, x, d) == 2 * x - d < 2 * d * c /\ 2 * d * c <= 2 * x + d

\* The transaction of the end-to-end scenario: item 20.00, shipping 5.00,
\* tax 2.00, handling 0.00, final-value fee 1.50.
IsScenario(txn) ==
    /\ ItemPriceOf(txn) = 2000
    /\ ShippingOf(txn) = 500
    /\ TaxOf(txn) = 200
    /\ Has(txn, "ActualHandlingCost")
    /\ HandlingOf(txn) = 0
    /\ FinalValueFeeOf(txn) = 150

InsertionFeeTiers ==
    /\ apc.sale = "done" =>
         /\ logged.sale_price = ItemPriceOf(transaction) + ShippingOf(transaction)
                                + TaxOf(transaction) + HandlingOf(transaction)
         /\ logged.sale_price <= 1000 => logged.insertion_fee = 30
         /\ logged.sale_price >= 1001 => logged.insertion_fee = 40
    /\ \A i \in 1..Len(unit_items) :
         LET row == unit_items[i]
         IN  /\ row.SalePrice = ItemPriceOf(transaction) + row.ShippingCost + row.SalesTax + row.HandlingCost
             /\ row.SalePrice <= 1000 => row.InsertionFee = 30
             /\ row.SalePrice >= 1001 => row.InsertionFee = 40
             /\ row.NetSaleWithoutAdFee
                  = row.SalePrice - row.SalesTax - row.FinalValueFee - row.InsertionFee - row.ShippingCost

\* A transaction whose total is above 10.00 and whose unit price is not:
\* 0.40 per order, 0.30 per unit.
InsertionFeeTiersWitness ==
    /\ apc.sale = "done"
    /\ apc.merge = "done"
    /\ logged.sale_price >= 1001
    /\ logged.insertion_fee = 40
    /\ Len(unit_items) >= 2
    /\ unit_items[1].SalePrice <= 1000
    /\ unit_items[1].InsertionFee = 30

\* The totals of the four allocated components and their per-unit columns.
Allocated(txn, row) ==
    << <<ShippingOf(txn), row.ShippingCost>>, <<TaxOf(txn), row.SalesTax>>,
       <<FinalValueFeeOf(txn), row.FinalValueFee>>, <<HandlingOf(txn), row.HandlingCost>> >>

\* C3 as claimed: each per-unit component is total / quantity rounded
\* half-up to the cent, and quantity times it is within one cent of the total.
PerUnitDriftAtMostOneCent ==
    (apc.merge = "done" /\ unit_items # <<>>) =>
        LET q == Len(unit_items)
            parts == Allocated(transaction, unit_items[1])
        IN  \A k \in 1..4 :
                /\ IsHalfUp(parts[k][2], parts[k][1], q)
                /\ Abs(q * parts[k][2] - parts[k][1]) <= 1

\* C3: each per-unit component is total / quantity rounded half-up to the
\* cent, the same in every row of the transaction, so that quantity times
\* it is within half a cent per unit of the total (0.01 for up to three
\* units); quantity 3 and total 3.01 give 1.00 per unit, 3.00 in sum.
PerUnitDriftAtMostHalfCentPerUnit ==
    (apc.merge = "done" /\ unit_items # <<>>) =>
        LET q == Len(unit_items)
            parts == Allocated(transaction, unit_items[1])
        IN  /\ \A i \in 1..q : unit_items[i] = unit_items[1]
            /\ \A k \in 1..4 :
                /\ IsHalfUp(parts[k][2], parts[k][1], q)
                /\ 2 * Abs(q * parts[k][2] - parts[k][1]) <= q
                /\ q <= 3 => Abs(q * parts[k][2] - parts[k][1]) <= 1
            /\ (q = 3 /\ parts[1][1] = 301) => parts[1][2] = 100

\* Four units share 0.02 of shipping: 0.01 each, 0.04 in sum.
PerUnitDriftWitness ==
    /\ apc.merge = "done"
    /\ Len(unit_items) = 4
    /\ ShippingOf(transaction) = 2
    /\ unit_items[1].ShippingCost = 1

QuantityAbsent(txn) == ~Has(txn, "QuantityPurchased")

QuantityZero(txn) == Has(txn, "QuantityPurchased") /\ txn.items["QuantityPurchased"].text = <<"0">>

\* The row's per-unit components are the transaction's totals.
CarriesTotals(txn, row) == \A k \in 1..4 : Allocated(txn, row)[k][2] = Allocated(txn, row)[k][1]

\* C4 as claimed: a transaction whose QuantityPurchased is 0 or absent
\* gets exactly one row, whose per-unit components are the totals.
QuantityZeroOrAbsentIsOne ==
    (apc.merge = "done" /\ (QuantityAbsent(transaction) \/ QuantityZero(transaction))) =>
        /\ Len(unit_items) = 1
        /\ CarriesTotals(transaction, unit_items[1])

\* C4: a transaction without QuantityPurchased gets exactly one row, whose
\* per-unit components are the totals; a transaction whose
\* QuantityPurchased is 0 is processed without a division and gets no row.
QuantityAbsentIsOneZeroIsNone ==
    apc.merge = "done" =>
        /\ QuantityAbsent(transaction) =>
             /\ Len(unit_items) = 1
             /\ CarriesTotals(transaction, unit_items[1])
        /\ QuantityZero(transaction) => unit_items = <<>>

\* A transaction of quantity 0 with a shipping total has been processed.
QuantityZeroWitness ==
    /\ apc.merge = "done"
    /\ QuantityZero(transaction)
    /\ ShippingOf(transaction) = 500
    /\ unit_items = <<>>

\* The fee transactions that name the order by a reference of type ORDER_ID.
NamesOrder(tx, id) ==
    \E i \in 1..Len(tx.references) :
        tx.references[i].referenceType = "ORDER_ID" /\ tx.references[i].referenceId = id

\* The sum of the amounts of the ingested fee transactions matched to the order.
MatchedFeeTotal(id) ==
    LET matched == SelectSeq(all_transactions, LAMBDA tx : NamesOrder(tx, id))
    IN  Sum([i \in 1..Len(matched) |-> Quantize(DecimalOf(matched[i].amount))])

Reconciled == script = "merge" /\ pc \in {"export", "done"}

\* C5 as claimed: with orders ingested, matching and reconciliation do not
\* raise, whatever the fee transactions (also when none of them names an
\* order), and a fee transaction without a reference of type ORDER_ID to
\* an ingested order is in no row's ad fee.
UnmatchedFeesAreHarmless ==
    /\ sales_data_df.rows # <<>> => pc # "crashed"
    /\ Reconciled =>
         \A i \in 1..Len(merged_df.rows) :
             \/ merged_df.rows[i].AdFee = 0
             \/ \E k \in 1..Len(all_transactions) :
                  /\ NamesOrder(all_transactions[k], merged_df.rows[i].OrderID)
                  /\ Quantize(DecimalOf(all_transactions[k].amount)) = merged_df.rows[i].AdFee

\* C6 as claimed: the ad fee in an order's net sale is the sum of the
\* amounts of all fee transactions matched to the order, zero when none is.
AdFeeIsSumOfMatchedFees ==
    Reconciled =>
        \A i \in 1..Len(merged_df.rows) :
            LET row == merged_df.rows[i]
            IN  /\ row.AdFee = MatchedFeeTotal(row.OrderID)
                /\ row.NetSale = row.NetSaleWithoutAdFee - MatchedFeeTotal(row.OrderID)

\* The response carries no continuation signal: no next link with an href
\* (link style), no "next" in its href (offset style).
NoContinuation(response) ==
    IF style = "link"
    THEN \A i \in 1..Len(response.links) :
             response.links[i].rel = "next" => response.links[i].href = <<>>
    ELSE ~Contains(response.href, <<"n", "e", "x", "t">>)

\* The transactions of the pages served so far, in arrival order.
Arrived(n) == Flatten([i \in 1..n |-> served[i].transactions])

\* C7: in both pagination loops a 200 response without a continuation
\* signal ends the loop: it is the last response, the number of requests
\* is its number (one for the first page), whatever the page holds, and
\* the result is the pages received so far in arrival order.
NoContinuationEndsPaging ==
    \A i \in 1..Len(served) :
        (served[i].status_code = 200 /\ NoContinuation(served[i])) =>
            /\ i = Len(served)
            /\ fpc = "returned"
            /\ fee_requests = i
            /\ all_transactions = Arrived(i)

\* A full first page without a continuation signal has ended the link loop.
NoContinuationWitness ==
    /\ style = "link"
    /\ Len(served) = 1
    /\ served[1].status_code = 200
    /\ NoContinuation(served[1])
    /\ Len(served[1].transactions) = MaxPageSize
    /\ fpc = "returned"
    /\ fee_requests = 1
    /\ all_transactions = served[1].transactions

FeeFetchFailed == \E i \in 1..Len(served) : served[i].status_code # 200

\* C8 as claimed: when the order fetch fails or a page of the fee fetch is
\* not a 200, no export file is written and no fee of an earlier page is
\* in an exported figure.
FailedFetchWritesNothing ==
    (pc = "failed" \/ FeeFetchFailed) =>
        /\ ~csv.written
        /\ \A i \in 1..Len(merged_df.rows) : merged_df.rows[i].AdFee = 0

\* C9 as claimed: the orders handed to process_sales_data are the orders of
\* all pages of the feed in arrival order, a request made for each page.
OrderIngestorReadsAllPages ==
    pc \in {"process", "fetch_fees", "merge", "export", "done", "crashed"} =>
        /\ orders.Order = Flatten(feed)
        /\ order_requests = Len(feed)

\* The entry the key path leads to, when every key of it is there.
RECURSIVE Resolve(_, _)
Resolve(node, path) ==
    IF path = <<>> THEN [found |-> TRUE, node |-> node]
    ELSE IF Has(node, Head(path)) THEN Resolve(node.items[Head(path)], Tail(path))
    ELSE [found |-> FALSE, node |-> NoneNode]

\* A key of the path, or the final 'value', is missing.
Missing(record, path) ==
    ~Resolve(record, path).found \/ ~Has(Resolve(record, path).node, "value")

\* Every key is there and the value is a numeric string.
Parseable(record, path) ==
    /\ ~Missing(record, path)
    /\ Resolve(record, path).node.items["value"].kind = "str"
    /\ IsDecimalText(Resolve(record, path).node.items["value"].text)

\* C10 as claimed: a missing key at any depth, or a missing 'value', gives
\* 0.00 and no error; a parseable value gives the amount rounded half-up to
\* two decimals; only a value that is there and not parseable gives an error.
ExtractDecimalNeverRaisesOnMissing ==
    xpc = "done" =>
        /\ Missing(data, key_path) => extracted = Returned(0)
        /\ Parseable(data, key_path) =>
             extracted = Returned(Quantize(DecimalOf(Resolve(data, key_path).node.items["value"].text)))
        /\ extracted.raised => (~Missing(data, key_path) /\ ~Parseable(data, key_path))

\* Every entry met along the path, the last one included, is a dict.
RECURSIVE DictsAlong(_, _)
DictsAlong(node, path) ==
    /\ node.kind = "dict"
    /\ (path # <<>> /\ Has(node, Head(path))) => DictsAlong(node.items[Head(path)], Tail(path))

\* What holds of extract_decimal: the three cases of C10 on the records
\* whose entries along the path are dicts; any other entry raises.
ExtractDecimalOnDicts ==
    xpc = "done" =>
        IF DictsAlong(data, key_path)
        THEN /\ Missing(data, key_path) => extracted = Returned(0)
             /\ Parseable(data, key_path) =>
                  extracted = Returned(Quantize(DecimalOf(Resolve(data, key_path).node.items["value"].text)))
             /\ extracted.raised <=> (~Missing(data, key_path) /\ ~Parseable(data, key_path))
        ELSE extracted.raised

\* The places of a timestamp text YYYY-MM-DDTHH:MM:SS.f...Z
IsTimestampText(t) ==
    /\ Len(t) >= 22
    /\ t[5] = "-" /\ t[8] = "-" /\ t[11] = "T" /\ t[14] = ":" /\ t[17] = ":" /\ t[20] = "." /\ t[Len(t)] = "Z"
    /\ \A i \in (1..(Len(t) - 1)) \ {5, 8, 11, 14, 17, 20} : IsDigit(t[i])

TimestampFields(t) ==
    DateTime(IntOf(SubSeq(t, 1, 4)), IntOf(SubSeq(t, 6, 7)), IntOf(SubSeq(t, 9, 10)),
             IntOf(SubSeq(t, 12, 13)), IntOf(SubSeq(t, 15, 16)), IntOf(SubSeq(t, 18, 19)))

\* The text names an instant: its date is a day of the calendar and its
\* time a time of the day.
NamesInstant(t) ==
    /\ IsTimestampText(t)
    /\ Len(t) <= 27
    /\ LET f == TimestampFields(t)
       IN  /\ f.month \in Months
           /\ f.day \in 1..DaysInMonth(f.year, f.month)
           /\ f.hour < 24 /\ f.minute < 60 /\ f.second < 60

\* The instant in UTC: whole seconds since 1970 and microseconds beyond.
InstantOf(t) ==
    [secs |-> Seconds(TimestampFields(t)),
     micros |-> IntOf(SubSeq(t, 21, Len(t) - 1)) * Pow10(27 - Len(t))]

Before(a, b) == a.secs < b.secs \/ (a.secs = b.secs /\ a.micros < b.micros)

\* The clock of the reference timezone, US/Pacific, at a UTC second.
InPacific(secs) ==
    LET y == FromSeconds(secs).year
        from == Seconds(DateTime(y, 3, SecondSundayOfMarch(y), 2, 0, 0)) - PST
        to == Seconds(DateTime(y, 11, FirstSundayOfNovember(y), 2, 0, 0)) - PDT
    IN  FromSeconds(secs + (IF from <= secs /\ secs < to THEN PDT ELSE PST))

\* start and end are the interval of the month m of y: both name instants,
\* start is before end, end is in the Pacific month of start and is its last
\* instant (one unit later, a second or a millisecond, it is midnight of the
\* first of the next month; for December that is January 1 of y + 1).
IsMonthInterval(y, m, start, end) ==
    /\ NamesInstant(start)
    /\ NamesInstant(end)
    /\ Before(InstantOf(start), InstantOf(end))
    /\ LET s == InPacific(InstantOf(start).secs)
           e == InPacific(InstantOf(end).secs)
           n == InPacific(InstantOf(end).secs + 1)
       IN  /\ e.year = s.year
           /\ e.month = s.month
           /\ InstantOf(end).micros \in {0, 999000}
           /\ n = DateTime(IF e.month = 12 THEN e.year + 1 ELSE e.year,
                           IF e.month = 12 THEN 1 ELSE e.month + 1, 1, 0, 0, 0)
           /\ m = 12 => n = DateTime(y + 1, 1, 1, 0, 0, 0)

\* C11 as claimed: every derivation of the reporting interval in the
\* repository, get_date_range of the two sales scripts and the start and end
\* strings of refund_logic, gives for every valid (year, month) a start
\* before the end, with the end in the same Pacific calendar month as the
\* start and its last instant, December ending one unit before January 1 of
\* year + 1.
EveryPeriodIsTheCivilMonth ==
    dpc \in {"sale", "merge", "refund"} => IsMonthInterval(year, month, start_date, end_date)

\* What holds: get_date_range of both sales scripts gives the interval of
\* the Pacific month entered, from its first instant to its last second.
GetDateRangeIsTheCivilMonth ==
    dpc \in {"sale", "merge"} =>
        /\ IsMonthInterval(year, month, start_date, end_date)
        /\ InPacific(InstantOf(start_date).secs) = DateTime(year, month, 1, 0, 0, 0)

GetDateRangeDecemberWitness ==
    /\ dpc \in {"sale", "merge"}
    /\ month = 12
    /\ InPacific(InstantOf(end_date).secs) = DateTime(year, 12, 31, 23, 59, 59)

\* The order fetch has answered and main has gone on with its answer.
OrderFetchSucceeded == script \in {"sale", "merge"} /\ pc \notin {"fetch_orders", "failed"}

\* The period holds no orders.
NoOrdersInPeriod == Flatten(feed) = <<>>

\* The fee fetch has returned, every page a 200, without a fee transaction.
FeeFetchEmpty ==
    /\ script = "merge"
    /\ fpc = "returned"
    /\ ~FeeFetchFailed
    /\ Arrived(Len(served)) = <<>>

\* C12 as claimed: an empty result is not an error.  When the order fetch
\* succeeds and the period holds no orders, or the fee fetch succeeds
\* without fee transactions, the run does not raise and the export it
\* writes is empty (no orders) or has ad fee zero on every row (no fees).
EmptyResultIsNotAnError ==
    /\ (OrderFetchSucceeded /\ NoOrdersInPeriod) =>
         /\ pc # "crashed"
         /\ pc = "done" => (csv.written /\ csv.rows = <<>>)
    /\ (OrderFetchSucceeded /\ FeeFetchEmpty) =>
         /\ pc # "crashed"
         /\ pc \in {"export", "done"} =>
              \A i \in 1..Len(merged_df.rows) :
                  merged_df.rows[i].AdFee = 0 /\ merged_df.rows[i].NetSale = merged_df.rows[i].NetSaleWithoutAdFee
         /\ pc = "done" => csv.written

\* What holds: ebay_sale_project writes an empty export for a period
\* without orders, and tradingAPI_FinanceAPI_Merge gives ad fee zero on
\* every row when no fee arrived and process_sales_data made a row; when it
\* made none, the merge raises.
EmptyResultWhereRowsExist ==
    /\ (script = "sale" /\ OrderFetchSucceeded /\ NoOrdersInPeriod) =>
         /\ pc # "crashed"
         /\ pc = "done" => (csv.written /\ csv.rows = <<>>)
    /\ (OrderFetchSucceeded /\ FeeFetchEmpty /\ sales_data_df.rows # <<>>) =>
         /\ pc # "crashed"
         /\ pc \in {"export", "done"} =>
              \A i \in 1..Len(merged_df.rows) :
                  merged_df.rows[i].AdFee = 0 /\ merged_df.rows[i].NetSale = merged_df.rows[i].NetSaleWithoutAdFee
    /\ (script = "merge" /\ pc \in {"export", "done", "crashed"}) =>
         (pc = "crashed" <=> (sales_data_df.rows = <<>> \/ (all_transactions # <<>> /\ ad_fees_df.rows = <<>>)))

\* The units sold in the ingested orders: the sum of QuantityPurchased (1
\* where a transaction does not carry it) over their transactions.
UnitsSold ==
    Sum(Flatten([i \in 1..Len(orders.Order) |->
        [j \in 1..Len(orders.Order[i].Transactions) |-> QuantityOf(orders.Order[i].Transactions[j])]]))

\* C13 as claimed: in the run of tradingAPI_FinanceAPI_Merge the number of
\* exported rows is the sum of QuantityPurchased over the transactions of
\* the ingested orders, whatever fee transactions were ingested: the join
\* of the fees adds no row and removes none.
ExportedRowsAreUnitsSold ==
    (script = "merge" /\ csv.written) =>
        /\ Len(csv.rows) = UnitsSold
        /\ Len(merged_df.rows) = Len(sales_data_df.rows)

\* What holds: process_sales_data makes a row for each unit sold, and the
\* join keeps every row and repeats it for each fee row of its order after
\* the first.
ExportedRowsRepeatPerFee ==
    /\ (script = "merge" /\ pc \notin {"fetch_orders", "failed", "process"}) =>
         Len(sales_data_df.rows) = UnitsSold
    /\ (script = "merge" /\ csv.written) =>
         Len(csv.rows) =
             Sum([i \in 1..Len(sales_data_df.rows) |->
                 LET n == Len(Matches(sales_data_df.rows[i], ad_fees_df))
                 IN  IF n = 0 THEN 1 ELSE n])

====
